---- MODULE Spec2Model ----
(***************************************************************************)
(* Genset control firmware (src/src/main.cpp): the control core.           *)
(*                                                                         *)
(* The model is a state machine over the firmware's globals, the function- *)
(* local statics of checkForSignals/checkRunningSignal, the GPIO pins, the *)
(* NVS store and the ReactESP event-loop queue.  Time is in milliseconds.  *)
(* The event loop's one-shot tasks are kept with the time remaining until  *)
(* they are due; the debouncers' "currentTime - last...ChangeTime" is kept *)
(* as an age that saturates just above DEBOUNCE_DELAY (all the code does   *)
(* with it is compare it with DEBOUNCE_DELAY).                             *)
(*                                                                         *)
(* Two time scales.  The repeating callbacks run every 10 and 50 ms and    *)
(* the debounce window is 50 ms; the relay and retry timers run for        *)
(* seconds.  A call of a repeating callback comes one period after the     *)
(* previous call of the same callback, and that is all the time its        *)
(* debouncer sees; the phase between the two repeating callbacks is left   *)
(* open.  The few hundred ms a debouncer takes to settle are not charged   *)
(* to the relay and retry timers; a timer that is due may fire before,     *)
(* between or after the callbacks of that span, so that every order in     *)
(* which the code can run them is a behaviour of the model.  Once the      *)
(* debouncers have settled, time passes up to the next timer (action       *)
(* idle).                                                                  *)
(*                                                                         *)
(* The status LED and its 2500 ms one-shot tasks are left out: nothing     *)
(* reads the LED back into the control logic.                              *)
(***************************************************************************)
EXTENDS Integers, FiniteSets, Sequences, Bags, TLC

\* ------------------------------------------------------------ constants
HIGH == TRUE
LOW == FALSE

DEBOUNCE_DELAY == 50
RETRY_CHECK_DELAY == 15000
TICK_PERIOD == 50
POLL_PERIOD == 10
DefaultPowerUpDuration == 10000
DefaultPowerDownDuration == 10000
DefaultRetryCount == 3
RetryCountLimit == 10

\* ------------------------------------------------------------ bounds
\* Largest retry count the control surface is asked to set in the model.
MaxRetryInput == 1
\* Number of things the environment does (a pin changes level, a request
\* arrives, an update begins, the device restarts) in one behaviour.
MaxEvents == 2
\* Steps beyond MaxEvents for the environment of CommandSpec, which only
\* sends start, stop and allow requests and moves the START line.
ExtraEvents == 2
\* Longest span (ms) the model lets pass in one step while nothing is pending.
IdleSkip == DefaultPowerUpDuration \div 2

\* The duration the control surface sets (ms); the default is 10000.
DurationChoices == {5000}
\* Retry counts the control surface asks for: -1, 11 and the values that
\* only a cast to uint8_t would bring into range are out of range.
RetryInputs ==
  (-1 .. MaxRetryInput) \cup {RetryCountLimit + 1, 256, 256 + MaxRetryInput}
\* An NVS key holds a set: empty when nothing is stored under it, else the
\* one value stored.
NoValue == {}
Stored(v) == {v}

VARIABLES
  \* GPIO
  pinStart, pinStop, pinRunning, relayK1, relayK2,
  \* globals of main.cpp
  powerUpDuration, powerDownDuration, retryStartCount,
  lastStartState, lastStopState, runningState, allowStart, retryCount,
  runningSignalChanged, generatorStopping, generatorStarting,
  \* statics of checkForSignals
  initialized, lastStartReading, lastStopReading,
  stableStartState, stableStopState, startAge, stopAge,
  \* statics of checkRunningSignal
  lastReading, stableState, runAge,
  \* NVS namespace "Genset"
  nvs,
  \* ReactESP event loop: the relay and retry one-shot tasks, and whether
  \* the boot-time one-shot is still to fire
  queue, bootSignalPending,
  \* OTA updater flag
  otaIsRunning,
  \* the web server's task: "idle", or the line of startGenerator /
  \* stopGenerator its handler is about to execute
  pc,
  \* observers: they record what happened and steer nothing
  lastOp, pre, outcome, interlockBroken, startSuppressed, startIgnored,
  attempts,
  edgeClean, edgeAlone, events

ctlVars == <<relayK1, relayK2, retryStartCount, generatorStopping,
             generatorStarting, queue, interlockBroken, attempts>>
pinVars == <<pinStart, pinStop, pinRunning>>
cfgVars == <<powerUpDuration, powerDownDuration, allowStart, retryCount>>
sigVars == <<initialized, lastStartReading, lastStopReading,
             stableStartState, stableStopState, startAge, stopAge>>
runVars == <<lastReading, stableState, runAge>>
vars == <<pinStart, pinStop, pinRunning, relayK1, relayK2,
          powerUpDuration, powerDownDuration, retryStartCount,
          lastStartState, lastStopState, runningState, allowStart, retryCount,
          runningSignalChanged, generatorStopping, generatorStarting,
          initialized, lastStartReading, lastStopReading,
          stableStartState, stableStopState, startAge, stopAge,
          lastReading, stableState, runAge, nvs, queue, bootSignalPending,
          otaIsRunning, lastOp, pre, interlockBroken, startSuppressed,
          startIgnored,
          attempts, edgeClean, edgeAlone, outcome, events, pc>>

\* ------------------------------------------------------------ helpers
Min(a, b) == IF a < b THEN a ELSE b

\* currentTime - last...ChangeTime, saturated: every value above
\* DEBOUNCE_DELAY behaves alike.
AgeAfter(age, d) ==
  IF age + d > DEBOUNCE_DELAY THEN DEBOUNCE_DELAY + 1 ELSE age + d

Task(kind, rem) == [kind |-> kind, rem |-> rem]

\* event_loop.onDelay(delay, callback)
onDelay(q, delay, kind) == q (+) SetToBag({Task(kind, delay)})

RECURSIVE CopiesSum(_, _)
CopiesSum(q, S) ==
  IF S = {} THEN 0
  ELSE LET e == CHOOSE x \in S : TRUE
       IN  q[e] + CopiesSum(q, S \ {e})

\* The queue after d ms: a task that is due stays due.
Later(e, d) == Task(e.kind, IF e.rem > d THEN e.rem - d ELSE 0)
QueueAfter(q, d) ==
  LET dom == {Later(e, d) : e \in DOMAIN q}
  IN  [x \in dom |-> CopiesSum(q, {e \in DOMAIN q : Later(e, d) = x})]

Pending(q, kind) == {e \in DOMAIN q : e.kind = kind}
PendingCount(q, kind) == CopiesSum(q, Pending(q, kind))
Due(q, kind) == {e \in DOMAIN q : e.kind = kind /\ e.rem = 0}

\* Time until the next one-shot task is due (IdleSkip when there is none).
RECURSIVE MinRem(_, _)
MinRem(S, best) ==
  IF S = {} THEN best
  ELSE LET e == CHOOSE x \in S : TRUE
       IN  MinRem(S \ {e}, Min(best, e.rem))

\* ------------------------------------------------------------ controller
\* The part of the state startGenerator/stopGenerator and their timer
\* callbacks write, as a record, so that a handler is the composition of
\* the calls it makes.
Ctl ==
  [generatorStarting |-> generatorStarting,
   generatorStopping |-> generatorStopping,
   relayK1 |-> relayK1,
   relayK2 |-> relayK2,
   retryStartCount |-> retryStartCount,
   queue |-> queue,
   interlockBroken |-> interlockBroken,
   attempts |-> attempts]

Commit(c) ==
  /\ generatorStarting' = c.generatorStarting
  /\ generatorStopping' = c.generatorStopping
  /\ relayK1' = c.relayK1
  /\ relayK2' = c.relayK2
  /\ retryStartCount' = c.retryStartCount
  /\ queue' = c.queue
  /\ interlockBroken' = c.interlockBroken
  /\ attempts' = c.attempts

\* digitalWrite(RELAY_K1 / RELAY_K2, level); the observer interlockBroken
\* latches when a write leaves both relays asserted, also in the middle of
\* a handler.
writeK1(c, level) ==
  [c EXCEPT !.relayK1 = level,
            !.interlockBroken = @ \/ (level /\ c.relayK2)]
writeK2(c, level) ==
  [c EXCEPT !.relayK2 = level,
            !.interlockBroken = @ \/ (level /\ c.relayK1)]

\* startGenerator(), main.cpp 381-414.  allow is the global allowStart and
\* up the global powerUpDuration at the time of the call; clean tells the
\* observer attempts whether to count.
startGeneratorMutantNoStarting(c, allow, up, clean) ==
  IF allow = FALSE THEN c
  ELSE IF c.generatorStopping THEN c
  ELSE
    LET c1 == [c EXCEPT !.generatorStarting = TRUE,
                        !.attempts = IF clean THEN @ + 1 ELSE 0]
        c2 == writeK1(c1, HIGH)
        c3 == [c2 EXCEPT !.queue = onDelay(@, up, "k1Release")]
    IN  [c3 EXCEPT !.queue = onDelay(@, RETRY_CHECK_DELAY, "retryCheck")]

startGeneratorMutantNoStopping(c, allow, up, clean) ==
  IF allow = FALSE THEN c
  ELSE IF c.generatorStarting THEN c
  ELSE
    LET c1 == [c EXCEPT !.generatorStarting = TRUE,
                        !.attempts = IF clean THEN @ + 1 ELSE 0]
        c2 == writeK1(c1, HIGH)
        c3 == [c2 EXCEPT !.queue = onDelay(@, up, "k1Release")]
    IN  [c3 EXCEPT !.queue = onDelay(@, RETRY_CHECK_DELAY, "retryCheck")]

startGeneratorMutantNoAllow(c, allow, up, clean) ==
  IF c.generatorStopping THEN c
  ELSE IF c.generatorStarting THEN c
  ELSE
    LET c1 == [c EXCEPT !.generatorStarting = TRUE,
                        !.attempts = IF clean THEN @ + 1 ELSE 0]
        c2 == writeK1(c1, HIGH)
        c3 == [c2 EXCEPT !.queue = onDelay(@, up, "k1Release")]
    IN  [c3 EXCEPT !.queue = onDelay(@, RETRY_CHECK_DELAY, "retryCheck")]

startGeneratorMutantReleaseLate(c, allow, up, clean) ==
  IF allow = FALSE THEN c
  ELSE IF c.generatorStopping THEN c
  ELSE IF c.generatorStarting THEN c
  ELSE
    LET c1 == [c EXCEPT !.generatorStarting = TRUE,
                        !.attempts = IF clean THEN @ + 1 ELSE 0]
        c2 == writeK1(c1, HIGH)
        c3 == [c2 EXCEPT !.queue = onDelay(@, RETRY_CHECK_DELAY, "k1Release")]
    IN  [c3 EXCEPT !.queue = onDelay(@, RETRY_CHECK_DELAY, "retryCheck")]

startGenerator(c, allow, up, clean) ==
  IF allow = FALSE THEN c
  ELSE IF c.generatorStopping THEN c
  ELSE IF c.generatorStarting THEN c
  ELSE
    LET c1 == [c EXCEPT !.generatorStarting = TRUE,
                        !.attempts = IF clean THEN @ + 1 ELSE 0]
        c2 == writeK1(c1, HIGH)
        c3 == [c2 EXCEPT !.queue = onDelay(@, up, "k1Release")]
    IN  [c3 EXCEPT !.queue = onDelay(@, RETRY_CHECK_DELAY, "retryCheck")]

\* stopGenerator(), main.cpp 417-443.  down is the global
\* powerDownDuration at the time of the call.
stopGeneratorMutantNoGuard(c, down) ==
  LET c1 == IF c.generatorStarting
            THEN writeK1([c EXCEPT !.generatorStarting = FALSE], LOW)
            ELSE c
      c2 == [c1 EXCEPT !.generatorStopping = TRUE]
      c3 == writeK2(c2, HIGH)
      c4 == writeK1(c3, LOW)
  IN  [c4 EXCEPT !.queue = onDelay(@, down, "k2Release")]

stopGeneratorMutantNoCancel(c, down) ==
  IF c.generatorStopping THEN c
  ELSE
    LET c2 == [c EXCEPT !.generatorStopping = TRUE]
        c3 == writeK2(c2, HIGH)
        c4 == writeK1(c3, LOW)
    IN  [c4 EXCEPT !.queue = onDelay(@, down, "k2Release")]

stopGenerator(c, down) ==
  IF c.generatorStopping THEN c
  ELSE
    LET c1 == IF c.generatorStarting
              THEN writeK1([c EXCEPT !.generatorStarting = FALSE], LOW)
              ELSE c
        c2 == [c1 EXCEPT !.generatorStopping = TRUE]
        c3 == writeK2(c2, HIGH)
        c4 == writeK1(c3, LOW)
    IN  [c4 EXCEPT !.queue = onDelay(@, down, "k2Release")]

\* The lambda startGenerator schedules after powerUpDuration, main.cpp 403-407.
k1Release(c) ==
  [writeK1(c, LOW) EXCEPT !.generatorStarting = FALSE]

\* The lambda stopGenerator schedules after powerDownDuration, main.cpp 435-439.
k2ReleaseMutantKeepsStopping(c) == writeK2(c, LOW)

k2Release(c) ==
  [writeK2(c, LOW) EXCEPT !.generatorStopping = FALSE]

\* checkGeneratorStateAndRetry(), main.cpp 366-378.
checkGeneratorStateAndRetryMutantOneMore(c, allow, up, clean, running, lastStart, limit) ==
  IF allow /\ running = LOW /\ lastStart = HIGH /\ c.retryStartCount <= limit
  THEN
    LET c1 == [c EXCEPT !.retryStartCount = @ + 1]
        c2 == startGenerator(c1, allow, up, clean)
    IN  [c2 EXCEPT !.queue = onDelay(@, RETRY_CHECK_DELAY, "retryCheck")]
  ELSE c

checkGeneratorStateAndRetry(c, allow, up, clean, running, lastStart, limit) ==
  IF allow /\ running = LOW /\ lastStart = HIGH /\ c.retryStartCount < limit
  THEN
    LET c1 == [c EXCEPT !.retryStartCount = @ + 1]
        c2 == startGenerator(c1, allow, up, clean)
    IN  [c2 EXCEPT !.queue = onDelay(@, RETRY_CHECK_DELAY, "retryCheck")]
  ELSE c

\* ------------------------------------------------------------ NVS
Keys == {"powerUpDuration", "powerDownDuration", "allowStart", "retryCount"}

\* preferences.getUInt / getBool(key, default)
nvsGet(store, key, default) ==
  IF store[key] = NoValue THEN default ELSE CHOOSE v \in store[key] : TRUE

\* getAllowStart(), main.cpp 313-322: opened tells whether
\* preferences.begin succeeded.
getAllowStart(store, opened) ==
  IF opened THEN nvsGet(store, "allowStart", TRUE) ELSE FALSE

\* getRetryCount(), main.cpp 355-364
getRetryCount(store, opened) ==
  IF opened THEN nvsGet(store, "retryCount", DefaultRetryCount) % 256 ELSE 0

\* getPowerUpDuration(), main.cpp 238-245: cur is the global before the call.
getPowerUpDuration(store, opened, cur) ==
  IF opened THEN nvsGet(store, "powerUpDuration", cur) ELSE cur

\* getPowerDownDuration(), main.cpp 278-287
getPowerDownDurationMutantIgnoresStore(store, opened, cur) ==
  IF opened THEN cur ELSE 0
getPowerDownDuration(store, opened, cur) ==
  IF opened THEN nvsGet(store, "powerDownDuration", cur) ELSE 0

\* The outcome of preferences.begin in the four loads of one boot: the
\* namespace opens for all of them or for none.
OpenChoices == {[k \in Keys |-> b] : b \in BOOLEAN}

\* The NVS content of a device that is powered up for the first time: the
\* namespace holds no key.  Every other content comes from the setters.
StoreChoices == {[k \in Keys |-> NoValue]}

\* The observer outcome: what a setter was asked to set and whether it
\* reported success; after setup(), whether the namespace opened for the
\* boot-time load.
Outcome(arg, ok) == [arg |-> arg, ok |-> ok]
NoOutcome == Outcome(0, FALSE)

\* The observer pre while no operation of the controller is on record.
NoPre ==
  [generatorStarting |-> FALSE, generatorStopping |-> FALSE,
   relayK1 |-> FALSE, relayK2 |-> FALSE,
   stableStartState |-> FALSE, stableStopState |-> FALSE,
   initialized |-> FALSE]

\* What the observer pre keeps of the state an operation starts in.
Snapshot ==
  [generatorStarting |-> generatorStarting,
   generatorStopping |-> generatorStopping,
   relayK1 |-> relayK1, relayK2 |-> relayK2,
   stableStartState |-> stableStartState,
   stableStopState |-> stableStopState,
   initialized |-> initialized]

\* ------------------------------------------------------------ boot
\* The state setup() leaves, main.cpp 816-889 (with the initializers of the
\* globals and statics, 73-91, 635-637, 681-687): store is the NVS content,
\* opens the outcome of the four preferences.begin calls, ps/pp/pr the pin
\* levels initializeStates reads.
Boot(store, opens, ps, pp, pr, spent) ==
    /\ pinStart = ps /\ pinStop = pp /\ pinRunning = pr
    /\ relayK1 = LOW /\ relayK2 = LOW
    /\ lastStartState = ps /\ lastStopState = pp /\ runningState = pr
    /\ allowStart = getAllowStart(store, opens["allowStart"])
    /\ retryCount = getRetryCount(store, opens["retryCount"])
    /\ powerUpDuration =
         getPowerUpDuration(store, opens["powerUpDuration"], DefaultPowerUpDuration)
    /\ powerDownDuration =
         getPowerDownDuration(store, opens["powerDownDuration"], DefaultPowerDownDuration)
    /\ retryStartCount = 0
    /\ runningSignalChanged = FALSE
    /\ generatorStopping = FALSE /\ generatorStarting = FALSE
    /\ initialized = FALSE
    /\ lastStartReading = LOW /\ lastStopReading = LOW
    /\ stableStartState = LOW /\ stableStopState = LOW
    /\ startAge = DEBOUNCE_DELAY + 1 /\ stopAge = DEBOUNCE_DELAY + 1
    /\ lastReading = LOW /\ stableState = LOW
    /\ runAge = DEBOUNCE_DELAY + 1
    /\ nvs = store
    /\ queue = EmptyBag
    /\ bootSignalPending = TRUE
    /\ otaIsRunning = FALSE
    /\ lastOp = "setup" /\ pre = NoPre
    /\ outcome = Outcome(0, opens["allowStart"])
    /\ interlockBroken = FALSE /\ startSuppressed = FALSE
    /\ startIgnored = FALSE
    /\ attempts = 0 /\ edgeClean = FALSE /\ edgeAlone = FALSE
    /\ events = spent
    /\ pc = "idle"

Init ==
  \E store \in StoreChoices, opens \in OpenChoices,
     ps \in BOOLEAN, pp \in BOOLEAN, pr \in BOOLEAN :
    Boot(store, opens, ps, pp, pr, 0)

\* A boot with the three lines low; the environment of CommandSpec below may
\* take ExtraEvents steps more than MaxEvents, so the count starts lower.
InitCommands ==
  \E store \in StoreChoices, opens \in OpenChoices :
    Boot(store, opens, LOW, LOW, LOW, 0 - ExtraEvents)

\* A restart: setup() runs again, on the NVS content and the pin levels as
\* they are.
Reboot ==
  \E opens \in OpenChoices :
    /\ events < MaxEvents
    /\ UNCHANGED pinVars
    /\ relayK1' = LOW /\ relayK2' = LOW
    /\ lastStartState' = pinStart /\ lastStopState' = pinStop
    /\ runningState' = pinRunning
    /\ allowStart' = getAllowStart(nvs, opens["allowStart"])
    /\ retryCount' = getRetryCount(nvs, opens["retryCount"])
    /\ powerUpDuration' =
         getPowerUpDuration(nvs, opens["powerUpDuration"], DefaultPowerUpDuration)
    /\ powerDownDuration' =
         getPowerDownDuration(nvs, opens["powerDownDuration"], DefaultPowerDownDuration)
    /\ retryStartCount' = 0
    /\ runningSignalChanged' = FALSE
    /\ generatorStopping' = FALSE /\ generatorStarting' = FALSE
    /\ initialized' = FALSE
    /\ lastStartReading' = LOW /\ lastStopReading' = LOW
    /\ stableStartState' = LOW /\ stableStopState' = LOW
    /\ startAge' = DEBOUNCE_DELAY + 1 /\ stopAge' = DEBOUNCE_DELAY + 1
    /\ lastReading' = LOW /\ stableState' = LOW
    /\ runAge' = DEBOUNCE_DELAY + 1
    /\ nvs' = nvs
    /\ queue' = EmptyBag
    /\ bootSignalPending' = TRUE
    /\ otaIsRunning' = FALSE
    /\ lastOp' = "setup" /\ pre' = NoPre
    /\ outcome' = Outcome(0, opens["allowStart"])
    /\ interlockBroken' = FALSE /\ startSuppressed' = FALSE
    /\ startIgnored' = FALSE
    /\ attempts' = 0 /\ edgeClean' = FALSE /\ edgeAlone' = FALSE
    /\ events' = events + 1
    /\ pc' = "idle"

\* ------------------------------------------------------------ control tick
\* What an operation of the controller leaves in the observers: its name
\* and the state it started in.
Did(op) == lastOp' = op /\ pre' = Snapshot /\ outcome' = NoOutcome
\* The same for a setter: arg is the value it was asked to set, ok what it
\* returns.
DidSet(op, arg, ok) ==
  lastOp' = op /\ pre' = Snapshot /\ outcome' = Outcome(arg, ok)
\* What a step of the environment, of the RUNNING debouncer or of time
\* leaves there: the record is dropped.
Quiet == lastOp' = "none" /\ pre' = NoPre /\ outcome' = NoOutcome

\* The debounce step for one line, main.cpp 711-718 (START), 720-727
\* (STOP) and 645-650 (RUNNING): age is currentTime - last...ChangeTime at
\* the previous call and period the time since that call.  The age after
\* the step, and the level the step takes for stable.
debounceAge(pin, reading, age, period) ==
  IF pin # reading THEN 0 ELSE AgeAfter(age, period)
debounceStableMutantNoWindow(pin, reading, age, period, stable) == pin
debounceStable(pin, reading, age, period, stable) ==
  IF debounceAge(pin, reading, age, period) > DEBOUNCE_DELAY THEN pin ELSE stable

\* The first call of checkForSignals, main.cpp 690-705.
checkForSignalsInit ==
  /\ ~initialized
  /\ initialized' = TRUE
  /\ lastStartReading' = pinStart /\ lastStopReading' = pinStop
  /\ stableStartState' = pinStart /\ stableStopState' = pinStop
  /\ startAge' = AgeAfter(startAge, TICK_PERIOD)
  /\ stopAge' = AgeAfter(stopAge, TICK_PERIOD)
  /\ UNCHANGED <<lastStartState, lastStopState, startSuppressed, startIgnored,
                 edgeClean,
                 edgeAlone>>
  /\ UNCHANGED ctlVars

\* Lines 733-737: both lines stable-high, the function returns.
signalsBothHigh(start, stop) ==
  /\ stop = HIGH /\ start = HIGH
  /\ UNCHANGED <<lastStartState, lastStopState, edgeClean, edgeAlone,
                 startIgnored>>
  /\ UNCHANGED ctlVars

\* Lines 739-746: rising edge of STOP.
signalsStopEdgeMutantLevel(start, stop) ==
  /\ ~(stop = HIGH /\ start = HIGH)
  /\ stop = HIGH
  /\ Commit(stopGenerator(Ctl, powerDownDuration))
  /\ lastStartState' = LOW
  /\ lastStopState' = stop
  /\ edgeAlone' = FALSE
  /\ UNCHANGED <<edgeClean, startIgnored>>

signalsStopEdge(start, stop) ==
  /\ ~(stop = HIGH /\ start = HIGH)
  /\ stop = HIGH /\ lastStopState = LOW
  /\ Commit(stopGenerator(Ctl, powerDownDuration))
  /\ lastStartState' = LOW
  /\ lastStopState' = stop
  /\ edgeAlone' = FALSE
  /\ UNCHANGED <<edgeClean, startIgnored>>

\* Lines 748-753: rising edge of START.
\* The observer edgeAlone is set when this edge starts a sequence from
\* Idle with no one-shot task pending, and cleared by every pin change,
\* request, update, restart and STOP edge that follows.
signalsStartEdge(start, stop) ==
  /\ ~(stop = HIGH /\ start = HIGH)
  /\ ~(stop = HIGH /\ lastStopState = LOW)
  /\ start = HIGH /\ lastStartState = LOW /\ ~generatorStopping
  /\ Commit(startGenerator([Ctl EXCEPT !.retryStartCount = 0, !.attempts = 0],
                           allowStart, powerUpDuration, TRUE))
  /\ edgeClean' = TRUE
  /\ edgeAlone' = (allowStart /\ ~generatorStarting /\ queue = EmptyBag)
  /\ startIgnored' = FALSE
  /\ lastStartState' = start
  /\ lastStopState' = stop

\* Lines 755-757: no edge to act on.
\* The observer startIgnored is set when the call passes over a rising
\* edge of START because the controller is Stopping (the condition of line
\* 748 fails on !generatorStopping and line 756 records the level), and
\* cleared by the next START edge that is acted on and by GET /start.
signalsNoEdge(start, stop) ==
  /\ ~(stop = HIGH /\ start = HIGH)
  /\ ~(stop = HIGH /\ lastStopState = LOW)
  /\ ~(start = HIGH /\ lastStartState = LOW /\ ~generatorStopping)
  /\ lastStartState' = start
  /\ lastStopState' = stop
  /\ startIgnored' =
       (startIgnored \/ (start = HIGH /\ lastStartState = LOW /\ generatorStopping))
  /\ UNCHANGED <<edgeClean, edgeAlone>>
  /\ UNCHANGED ctlVars

\* Every later call of checkForSignals, main.cpp 707-758.
checkForSignalsRun ==
  /\ initialized
  /\ LET start == debounceStable(pinStart, lastStartReading, startAge,
                                  TICK_PERIOD, stableStartState)
         stop == debounceStable(pinStop, lastStopReading, stopAge,
                                 TICK_PERIOD, stableStopState)
     IN  /\ startAge' = debounceAge(pinStart, lastStartReading, startAge, TICK_PERIOD)
         /\ stopAge' = debounceAge(pinStop, lastStopReading, stopAge, TICK_PERIOD)
         /\ lastStartReading' = pinStart /\ lastStopReading' = pinStop
         /\ stableStartState' = start /\ stableStopState' = stop
         /\ startSuppressed' =
              IF start = LOW THEN FALSE
              ELSE IF stableStartState = LOW /\ stop = HIGH THEN TRUE
              ELSE startSuppressed
         /\ \/ signalsBothHigh(start, stop)
            \/ signalsStopEdge(start, stop)
            \/ signalsStartEdge(start, stop)
            \/ signalsNoEdge(start, stop)
  /\ UNCHANGED initialized

\* A call of checkForSignals now would change nothing.
TickIdle ==
  /\ initialized
  /\ pinStart = lastStartReading /\ pinStop = lastStopReading
  /\ startAge > DEBOUNCE_DELAY /\ stopAge > DEBOUNCE_DELAY
  /\ stableStartState = lastStartReading /\ stableStopState = lastStopReading
  /\ \/ stableStopState = HIGH /\ stableStartState = HIGH
     \/ /\ lastStartState = stableStartState
        /\ lastStopState = stableStopState

\* event_loop.onRepeat(50, checkForSignals), main.cpp 874, behind the gate
\* of loop(), main.cpp 894.  A call that would change nothing is a
\* stuttering step.
checkForSignals ==
  /\ ~otaIsRunning /\ ~bootSignalPending
  /\ ~TickIdle
  /\ checkForSignalsInit \/ checkForSignalsRun
  /\ Did("checkForSignals")
  /\ UNCHANGED <<pinVars, cfgVars, runVars, runningState, runningSignalChanged,
                 nvs, bootSignalPending, otaIsRunning, events, pc>>

\* event_loop.onRepeat(10, checkRunningSignal), main.cpp 634-663, 875.
checkRunningSignal ==
  /\ ~otaIsRunning /\ ~bootSignalPending
  /\ IF runningSignalChanged
     THEN LET stable == debounceStable(pinRunning, lastReading, runAge,
                                       POLL_PERIOD, stableState)
          IN  /\ runningSignalChanged' = FALSE
              /\ runAge' = debounceAge(pinRunning, lastReading, runAge, POLL_PERIOD)
              /\ lastReading' = pinRunning
              /\ stableState' = stable
              /\ runningState' = IF stable # stableState THEN stable ELSE runningState
     ELSE /\ runAge' = AgeAfter(runAge, POLL_PERIOD)
          /\ UNCHANGED <<runningSignalChanged, lastReading, stableState, runningState>>
  /\ Quiet
  /\ UNCHANGED <<pinVars, cfgVars, sigVars, ctlVars, lastStartState,
                 lastStopState, nvs, bootSignalPending, otaIsRunning,
                 startSuppressed, startIgnored, edgeClean, edgeAlone, events,
                 pc>>

\* ------------------------------------------------------------ one-shot tasks
\* What every one-shot callback leaves alone besides the controller part.
TaskFrame ==
  UNCHANGED <<pinVars, cfgVars, sigVars, runVars, lastStartState,
              lastStopState, runningState, nvs, otaIsRunning,
              startSuppressed, startIgnored, events, pc>>

Take(e) == [Ctl EXCEPT !.queue = @ (-) SetToBag({e})]

\* The K1 release task fires.
fireK1ReleaseMutantNoGate ==
  /\ \E e \in Due(queue, "k1Release") : Commit(k1Release(Take(e)))
  /\ Did("k1Release")
  /\ UNCHANGED <<runningSignalChanged, bootSignalPending, edgeClean,
                 edgeAlone>>
  /\ TaskFrame

fireK1Release ==
  /\ ~otaIsRunning
  /\ \E e \in Due(queue, "k1Release") : Commit(k1Release(Take(e)))
  /\ Did("k1Release")
  /\ UNCHANGED <<runningSignalChanged, bootSignalPending, edgeClean,
                 edgeAlone>>
  /\ TaskFrame

\* The K2 release task fires.
fireK2Release ==
  /\ ~otaIsRunning
  /\ \E e \in Due(queue, "k2Release") : Commit(k2Release(Take(e)))
  /\ Did("k2Release")
  /\ UNCHANGED <<runningSignalChanged, bootSignalPending, edgeClean,
                 edgeAlone>>
  /\ TaskFrame

\* A verification check fires.
fireRetryCheck ==
  /\ ~otaIsRunning
  /\ \E e \in Due(queue, "retryCheck") :
       Commit(checkGeneratorStateAndRetry(Take(e), allowStart, powerUpDuration,
                edgeClean, runningState, lastStartState, retryCount))
  /\ Did("retryCheck")
  /\ UNCHANGED <<runningSignalChanged, bootSignalPending, edgeClean,
                 edgeAlone>>
  /\ TaskFrame

\* event_loop.onDelay(5, receiveRunningSignal), main.cpp 873 and 765-767.
fireBootSignal ==
  /\ ~otaIsRunning
  /\ bootSignalPending
  /\ bootSignalPending' = FALSE
  /\ runningSignalChanged' = TRUE
  /\ Quiet
  /\ UNCHANGED <<edgeClean, edgeAlone>>
  /\ UNCHANGED ctlVars
  /\ TaskFrame

\* ------------------------------------------------------------ control surface
\* A handler of the web server that runs to completion between two
\* callbacks of the event loop.
RequestFrame ==
  /\ events < MaxEvents
  /\ pc = "idle"
  /\ events' = events + 1
  /\ edgeAlone' = FALSE
  /\ UNCHANGED <<pinVars, sigVars, runVars, lastStartState, lastStopState,
                 runningState, runningSignalChanged, bootSignalPending,
                 otaIsRunning, startSuppressed, pc>>

\* preferences.putX(key, value) inside an opened namespace: wrote tells
\* whether the write went through.
nvsPut(store, key, value, wrote) ==
  IF wrote THEN [store EXCEPT ![key] = Stored(value)] ELSE store

\* GET /start, main.cpp 608-612.
requestStart ==
  /\ LET c == startGenerator([Ctl EXCEPT !.attempts = 0], allowStart,
                             powerUpDuration, FALSE)
     IN  /\ Commit(c)
         /\ edgeClean' = (edgeClean /\ c.queue = queue)
  /\ Did("start")
  /\ startIgnored' = FALSE
  /\ UNCHANGED <<cfgVars, nvs>>
  /\ RequestFrame

\* GET /stop, main.cpp 615-619.
requestStop ==
  /\ Commit(stopGenerator(Ctl, powerDownDuration))
  /\ Did("stop")
  /\ UNCHANGED <<cfgVars, nvs, edgeClean, startIgnored>>
  /\ RequestFrame

\* setAllowStart(state), main.cpp 295-305: the cached flag after the call.
setAllowStart(cur, state, opened) == IF opened THEN state ELSE cur

\* GET /allowStart, main.cpp 587-590.
requestAllowStart ==
  /\ \E opened \in BOOLEAN, wrote \in BOOLEAN :
       /\ allowStart' = setAllowStart(allowStart, TRUE, opened)
       /\ nvs' = nvsPut(nvs, "allowStart", TRUE, opened /\ wrote)
       /\ DidSet("allowStart", 1, opened /\ wrote)
  /\ edgeClean' = (edgeClean /\ allowStart' = allowStart)
  /\ UNCHANGED <<powerUpDuration, powerDownDuration, retryCount>>
  /\ UNCHANGED ctlVars
  /\ UNCHANGED startIgnored
  /\ RequestFrame

\* GET /disallowStart, main.cpp 592-596.
requestDisallowStartMutantNoStop ==
  /\ \E opened \in BOOLEAN, wrote \in BOOLEAN :
       /\ allowStart' = setAllowStart(allowStart, FALSE, opened)
       /\ nvs' = nvsPut(nvs, "allowStart", FALSE, opened /\ wrote)
       /\ DidSet("disallowStart", 0, opened /\ wrote)
  /\ UNCHANGED ctlVars
  /\ edgeClean' = (edgeClean /\ allowStart' = allowStart)
  /\ UNCHANGED <<powerUpDuration, powerDownDuration, retryCount>>
  /\ UNCHANGED startIgnored
  /\ RequestFrame

requestDisallowStart ==
  /\ \E opened \in BOOLEAN, wrote \in BOOLEAN :
       /\ allowStart' = setAllowStart(allowStart, FALSE, opened)
       /\ nvs' = nvsPut(nvs, "allowStart", FALSE, opened /\ wrote)
       /\ DidSet("disallowStart", 0, opened /\ wrote)
  /\ Commit(stopGenerator(Ctl, powerDownDuration))
  /\ edgeClean' = (edgeClean /\ allowStart' = allowStart)
  /\ UNCHANGED <<powerUpDuration, powerDownDuration, retryCount>>
  /\ UNCHANGED startIgnored
  /\ RequestFrame

\* The range test of GET /setRetryCount, main.cpp 566, on the int that
\* toInt() returns.
countInRangeMutantAfterCast(n) == (n % 256) <= RetryCountLimit
countInRange(n) == ~(n < 0 \/ n > RetryCountLimit)

\* GET /setRetryCount?count=n, main.cpp 560-573, with setRetryCount, 334-344:
\* the handler assigns the global before it calls the setter.
requestSetRetryCount ==
  /\ \E n \in RetryInputs, opened \in BOOLEAN, wrote \in BOOLEAN :
       IF ~countInRange(n)
       THEN /\ UNCHANGED <<retryCount, nvs>>
            /\ DidSet("setRetryCount", n, FALSE)
       ELSE /\ retryCount' = n % 256
            /\ nvs' = nvsPut(nvs, "retryCount", n % 256, opened /\ wrote)
            /\ DidSet("setRetryCount", n, opened /\ wrote)
  /\ edgeClean' = (edgeClean /\ retryCount' = retryCount)
  /\ UNCHANGED <<powerUpDuration, powerDownDuration, allowStart>>
  /\ UNCHANGED ctlVars
  /\ UNCHANGED startIgnored
  /\ RequestFrame

\* GET /setPowerUpDuration?duration=d, main.cpp 575-579, with
\* setPowerUpDuration, 217-227.
requestSetPowerUpDuration ==
  /\ \E d \in DurationChoices, opened \in BOOLEAN, wrote \in BOOLEAN :
       /\ powerUpDuration' = IF opened THEN d ELSE powerUpDuration
       /\ nvs' = nvsPut(nvs, "powerUpDuration", d, opened /\ wrote)
       /\ DidSet("setPowerUpDuration", d, opened /\ wrote)
  /\ edgeClean' = (edgeClean /\ powerUpDuration' = powerUpDuration)
  /\ UNCHANGED <<powerDownDuration, allowStart, retryCount>>
  /\ UNCHANGED ctlVars
  /\ UNCHANGED startIgnored
  /\ RequestFrame

\* GET /setPowerDownDuration?duration=d, main.cpp 581-585, with
\* setPowerDownDuration, 256-266: the assignment to the global comes after
\* both returns and never runs.
requestSetPowerDownDuration ==
  /\ \E d \in DurationChoices, opened \in BOOLEAN, wrote \in BOOLEAN :
       /\ nvs' = nvsPut(nvs, "powerDownDuration", d, opened /\ wrote)
       /\ DidSet("setPowerDownDuration", d, opened /\ wrote)
  /\ UNCHANGED <<cfgVars, edgeClean>>
  /\ UNCHANGED ctlVars
  /\ UNCHANGED startIgnored
  /\ RequestFrame

\* ------------------------------------------------------------ environment
EnvFrame ==
  UNCHANGED <<cfgVars, sigVars, runVars, ctlVars, lastStartState,
              lastStopState, runningState, nvs, bootSignalPending,
              startSuppressed, startIgnored, edgeClean, pc>>
  /\ edgeAlone' = FALSE

\* The START line changes level.
changeStart ==
  /\ events < MaxEvents
  /\ events' = events + 1
  /\ pinStart' = ~pinStart
  /\ Quiet
  /\ UNCHANGED <<pinStop, pinRunning, runningSignalChanged, otaIsRunning>>
  /\ EnvFrame

\* The STOP line changes level.
changeStop ==
  /\ events < MaxEvents
  /\ events' = events + 1
  /\ pinStop' = ~pinStop
  /\ Quiet
  /\ UNCHANGED <<pinStart, pinRunning, runningSignalChanged, otaIsRunning>>
  /\ EnvFrame

\* The RUNNING line changes level: the interrupt attached at main.cpp 839
\* runs receiveRunningSignal, 765-767.
changeRunning ==
  /\ events < MaxEvents
  /\ events' = events + 1
  /\ pinRunning' = ~pinRunning
  /\ runningSignalChanged' = TRUE
  /\ Quiet
  /\ UNCHANGED <<pinStart, pinStop, otaIsRunning>>
  /\ EnvFrame

\* A firmware upload or update begins, otaWebUpdater.cpp 199, 365, 446.
otaBegin ==
  /\ ~otaIsRunning
  /\ events < MaxEvents
  /\ events' = events + 1
  /\ otaIsRunning' = TRUE
  /\ Quiet
  /\ UNCHANGED <<pinVars, runningSignalChanged>>
  /\ EnvFrame

\* The update ends without a restart, otaWebUpdater.cpp 206, 213, 227.
otaEnd ==
  /\ otaIsRunning
  /\ otaIsRunning' = FALSE
  /\ Quiet
  /\ UNCHANGED <<pinVars, runningSignalChanged, events>>
  /\ EnvFrame

\* ------------------------------------------------------------ time
\* Neither repeating callback would change anything, now or later, until a
\* pin changes, a request arrives or a one-shot task fires.
Quiescent == TickIdle /\ ~runningSignalChanged /\ runAge > DEBOUNCE_DELAY

TimeFrame ==
  UNCHANGED <<pinVars, cfgVars, relayK1, relayK2, retryStartCount,
              generatorStopping, generatorStarting, interlockBroken, attempts,
              initialized, lastStartReading, lastStopReading,
              stableStartState, stableStopState, lastReading, stableState,
              lastStartState, lastStopState, runningState,
              runningSignalChanged, nvs, bootSignalPending, otaIsRunning,
              startSuppressed, startIgnored, edgeClean, edgeAlone, events,
              pc>>

Passes(d) ==
  /\ startAge' = AgeAfter(startAge, d)
  /\ stopAge' = AgeAfter(stopAge, d)
  /\ runAge' = AgeAfter(runAge, d)
  /\ queue' = QueueAfter(queue, d)
  /\ Quiet
  /\ TimeFrame

\* While the repeating callbacks have nothing to do: time passes up to the
\* next one-shot task (IdleSkip at most); the calls of the repeating
\* callbacks in between change nothing.
idle ==
  /\ ~otaIsRunning
  /\ ~bootSignalPending
  /\ Quiescent
  /\ MinRem(DOMAIN queue, IdleSkip) > 0
  /\ Passes(MinRem(DOMAIN queue, IdleSkip))

\* Time passes while loop() returns early, main.cpp 894: nothing fires.
otaElapse ==
  /\ otaIsRunning
  /\ Passes(IdleSkip)

\* ------------------------------------------------------------ specification
Next ==
  \/ checkForSignals
  \/ checkRunningSignal
  \/ fireK1Release
  \/ fireK2Release
  \/ fireRetryCheck
  \/ fireBootSignal
  \/ requestStart
  \/ requestStop
  \/ requestAllowStart
  \/ requestDisallowStart
  \/ requestSetRetryCount
  \/ requestSetPowerUpDuration
  \/ requestSetPowerDownDuration
  \/ changeStart
  \/ changeStop
  \/ changeRunning
  \/ otaBegin
  \/ otaEnd
  \/ idle
  \/ otaElapse
  \/ Reboot

Spec == Init /\ [][Next]_vars

\* The program in an environment that only sends GET /start, /stop and
\* /allowStart and moves the START line, for the scenarios that need more
\* of these than MaxEvents.
NextCommands ==
  \/ checkForSignals
  \/ checkRunningSignal
  \/ fireK1Release
  \/ fireK2Release
  \/ fireRetryCheck
  \/ fireBootSignal
  \/ requestStart
  \/ requestStop
  \/ requestAllowStart
  \/ changeStart
  \/ idle

CommandSpec == InitCommands /\ [][NextCommands]_vars

\* The same program with the scheduling loop() gives: as long as no update
\* is running every iteration calls event_loop.tick(), main.cpp 896, so a
\* repeating callback is called again and again, a due one-shot task fires,
\* and time goes on.  Nothing is assumed about the environment: an update
\* may never end.
FairSpec ==
  /\ Spec
  /\ WF_vars(checkForSignals)
  /\ WF_vars(checkRunningSignal)
  /\ WF_vars(fireBootSignal)
  /\ WF_vars(fireK1Release)
  /\ WF_vars(fireK2Release)
  /\ WF_vars(fireRetryCheck)
  /\ WF_vars(idle)

\* ------------------------------------------------------------ web server task
\* The handlers of /start and /stop, main.cpp 607-619, run in the web
\* server's task, not in loop(): startGenerator and stopGenerator taken one
\* statement at a time, so that callbacks of the event loop may run in
\* between.  pc names the line the handler executes next.
WebStep(from, to, c) ==
  /\ pc = from /\ pc' = to
  /\ Commit(c)
  /\ lastOp' = "web" /\ pre' = NoPre /\ outcome' = NoOutcome
  /\ edgeClean' = (edgeClean /\ c.queue = queue)
  /\ edgeAlone' = FALSE
  /\ UNCHANGED <<pinVars, cfgVars, sigVars, runVars, lastStartState,
                 lastStopState, runningState, runningSignalChanged, nvs,
                 bootSignalPending, otaIsRunning, startSuppressed,
                 startIgnored>>

\* GET /start arrives; if (allowStart == false) return; main.cpp 382-385.
webStart382 ==
  /\ events < MaxEvents /\ events' = events + 1
  /\ WebStep("idle", IF allowStart = FALSE THEN "idle" ELSE "start388", Ctl)

\* if (generatorStopping) return; main.cpp 388-391.
webStart388 ==
  /\ WebStep("start388", IF generatorStopping THEN "idle" ELSE "start394", Ctl)
  /\ UNCHANGED events

\* if (generatorStarting) return; main.cpp 394-397.
webStart394 ==
  /\ WebStep("start394", IF generatorStarting THEN "idle" ELSE "start399", Ctl)
  /\ UNCHANGED events

\* generatorStarting = true; main.cpp 399.
webStart399 ==
  /\ WebStep("start399", "start401",
             [Ctl EXCEPT !.generatorStarting = TRUE, !.attempts = 0])
  /\ UNCHANGED events

\* digitalWrite(RELAY_K1, HIGH); main.cpp 401.
webStart401 ==
  /\ WebStep("start401", "start403", writeK1(Ctl, HIGH))
  /\ UNCHANGED events

\* event_loop.onDelay(powerUpDuration, ...); main.cpp 403-407.
webStart403 ==
  /\ WebStep("start403", "start410",
             [Ctl EXCEPT !.queue = onDelay(@, powerUpDuration, "k1Release")])
  /\ UNCHANGED events

\* event_loop.onDelay(15000, checkGeneratorStateAndRetry); main.cpp 410.
webStart410 ==
  /\ WebStep("start410", "idle",
             [Ctl EXCEPT !.queue = onDelay(@, RETRY_CHECK_DELAY, "retryCheck")])
  /\ UNCHANGED events

\* GET /stop arrives; if (generatorStopping) return; main.cpp 419-422.
webStop419 ==
  /\ events < MaxEvents /\ events' = events + 1
  /\ WebStep("idle", IF generatorStopping THEN "idle" ELSE "stop425", Ctl)

\* if (generatorStarting), main.cpp 425.
webStop425 ==
  /\ WebStep("stop425", IF generatorStarting THEN "stop426" ELSE "stop430", Ctl)
  /\ UNCHANGED events

\* generatorStarting = false; main.cpp 426.
webStop426 ==
  /\ WebStep("stop426", "stop427", [Ctl EXCEPT !.generatorStarting = FALSE])
  /\ UNCHANGED events

\* digitalWrite(RELAY_K1, LOW); main.cpp 427.
webStop427 ==
  /\ WebStep("stop427", "stop430", writeK1(Ctl, LOW))
  /\ UNCHANGED events

\* generatorStopping = true; main.cpp 430.
webStop430 ==
  /\ WebStep("stop430", "stop432", [Ctl EXCEPT !.generatorStopping = TRUE])
  /\ UNCHANGED events

\* digitalWrite(RELAY_K2, HIGH); main.cpp 432.
webStop432 ==
  /\ WebStep("stop432", "stop433", writeK2(Ctl, HIGH))
  /\ UNCHANGED events

\* digitalWrite(RELAY_K1, LOW); main.cpp 433.
webStop433 ==
  /\ WebStep("stop433", "stop435", writeK1(Ctl, LOW))
  /\ UNCHANGED events

\* event_loop.onDelay(powerDownDuration, ...); main.cpp 435-439.
webStop435 ==
  /\ WebStep("stop435", "idle",
             [Ctl EXCEPT !.queue = onDelay(@, powerDownDuration, "k2Release")])
  /\ UNCHANGED events

\* Time passes between two requests, not inside one: a handler takes far
\* less than the time to the next one-shot task.
idleBetweenRequests == pc = "idle" /\ idle

\* The program with the two handlers in their own task: every callback of
\* the event loop is one step, every statement of a handler is one step,
\* in any order.
NextInterleaved ==
  \/ checkForSignals
  \/ checkRunningSignal
  \/ fireK1Release
  \/ fireK2Release
  \/ fireRetryCheck
  \/ fireBootSignal
  \/ changeStart
  \/ changeStop
  \/ webStart382
  \/ webStart388
  \/ webStart394
  \/ webStart399
  \/ webStart401
  \/ webStart403
  \/ webStart410
  \/ webStop419
  \/ webStop425
  \/ webStop426
  \/ webStop427
  \/ webStop430
  \/ webStop432
  \/ webStop433
  \/ webStop435
  \/ idleBetweenRequests

InterleavedSpec == Init /\ [][NextInterleaved]_vars

\* ------------------------------------------------------------ properties
\* C1: a call of checkForSignals that ends with START and STOP both
\* stable-high leaves the controller Stopping (K2 asserted, K1 low) and not
\* Starting; stated for the calls after the seeding one that begin in
\* Starting, where the priority of STOP decides whether K1 stays asserted.
StopPriority ==
  (/\ lastOp = "checkForSignals" /\ pre.initialized
   /\ stableStartState = HIGH /\ stableStopState = HIGH
   /\ pre.generatorStarting)
    => (/\ generatorStopping /\ ~generatorStarting
        /\ relayK2 = HIGH /\ relayK1 = LOW)

\* C2: when STOP becomes stable-high in a call of checkForSignals (not the
\* seeding one) that begins in Starting, the call ends with K1 low, K2
\* asserted, the controller Stopping and a K2 release task powerDownDuration
\* ahead, whatever the level of START.
StopEdgeCancelsStart ==
  (/\ lastOp = "checkForSignals" /\ pre.initialized
   /\ stableStopState = HIGH /\ pre.stableStopState = LOW
   /\ pre.generatorStarting /\ pre.relayK1 = HIGH)
    => (/\ relayK1 = LOW /\ relayK2 = HIGH
        /\ generatorStopping /\ ~generatorStarting
        /\ Task("k2Release", powerDownDuration) \in DOMAIN queue)

\* C3: a rising edge of START that became stable while STOP was stable-high
\* starts nothing, in that call of checkForSignals or in a later one, as long
\* as START stays high: no call of checkForSignals made while
\* startSuppressed holds begins a start sequence.
SuppressedStartNeverRuns ==
  (lastOp = "checkForSignals" /\ startSuppressed)
    => ~(generatorStarting /\ ~pre.generatorStarting)

\* C4: generatorStarting and generatorStopping are never both true.
NeverStartingAndStopping == ~(generatorStarting /\ generatorStopping)

\* A stop sequence has just replaced a start sequence in progress.
StopReplacedStart ==
  /\ lastOp \in {"stop", "checkForSignals", "disallowStart"}
  /\ pre.generatorStarting /\ generatorStopping

\* C5: relay K1 and relay K2 are never both asserted, neither in a state
\* between two operations nor after any single relay write inside one.
RelayInterlock == ~interlockBroken /\ ~(relayK1 = HIGH /\ relayK2 = HIGH)

\* stopGenerator has asserted K2 from a state in which K1 was asserted.
K2AssertedOverK1 ==
  /\ lastOp \in {"stop", "checkForSignals", "disallowStart"}
  /\ pre.relayK1 = HIGH /\ pre.relayK2 = LOW
  /\ relayK2 = HIGH /\ relayK1 = LOW

\* C6: GET /start while generatorStarting is set changes neither relay,
\* neither flag, nor the retry counter, and schedules nothing.
StartIdempotent ==
  [][(lastOp' = "start" /\ generatorStarting)
       => UNCHANGED <<relayK1, relayK2, generatorStarting, generatorStopping,
                      retryStartCount, queue>>]_vars

\* GET /start has been served while a start sequence was in progress.
StartedWhileStarting ==
  /\ lastOp = "start" /\ pre.generatorStarting /\ pre.relayK1 = HIGH
  /\ generatorStarting /\ relayK1 = HIGH
  /\ PendingCount(queue, "k1Release") = 1
  /\ PendingCount(queue, "retryCheck") = 1

\* C7: a stop requested while generatorStopping is set changes neither
\* relay nor flag and schedules nothing, so that the K2 release task of the
\* first stop keeps its time; a K2 release task is pending exactly while the
\* controller is Stopping, and only one, and all that time K2 is asserted
\* and K1 is low.
StopIdempotent ==
  /\ [](/\ PendingCount(queue, "k2Release") = (IF generatorStopping THEN 1 ELSE 0)
        /\ generatorStopping => (relayK2 = HIGH /\ relayK1 = LOW))
  /\ [][(lastOp' \in {"stop", "disallowStart"} /\ generatorStopping)
          => UNCHANGED <<relayK1, relayK2, generatorStarting,
                         generatorStopping, retryStartCount, queue>>]_vars

\* GET /stop has been served while a stop sequence was in progress.
StoppedWhileStopping ==
  /\ lastOp = "stop" /\ pre.generatorStopping /\ pre.relayK2 = HIGH
  /\ generatorStopping

\* C8: no step taken while allowStart is false asserts K1, sets
\* generatorStarting, or schedules a K1 release task or a verification
\* check; K2 and generatorStopping change in such a step only when it is a
\* stop, a K2 release or a restart.
NoStartWhileDisallowed ==
  [][(allowStart = FALSE) =>
       (/\ relayK1' = HIGH => relayK1 = HIGH
        /\ generatorStarting' => generatorStarting
        /\ PendingCount(queue', "k1Release") <= PendingCount(queue, "k1Release")
        /\ PendingCount(queue', "retryCheck") <= PendingCount(queue, "retryCheck")
        /\ lastOp' \in {"start", "retryCheck"} =>
             UNCHANGED <<relayK1, relayK2, generatorStarting, generatorStopping>>)]_vars

\* GET /start has been served, or a START edge seen, while allowStart was
\* false.
StartRefused ==
  /\ allowStart = FALSE /\ relayK1 = LOW /\ ~generatorStarting
  /\ \/ lastOp = "start"
     \/ /\ lastOp = "checkForSignals" /\ pre.initialized
        /\ stableStartState = HIGH /\ pre.stableStartState = LOW
        /\ stableStopState = LOW

\* C9: GET /disallowStart leaves the controller Stopping, not Starting,
\* with K1 low and K2 asserted, whether or not the flag reached the cache or
\* the store.
DisallowForcesStop ==
  lastOp = "disallowStart"
    => (/\ generatorStopping /\ ~generatorStarting
        /\ relayK1 = LOW /\ relayK2 = HIGH)

\* GET /disallowStart has been served in Starting and the namespace did not
\* open, so that the cached flag is still true.
DisallowedWhileStarting ==
  /\ lastOp = "disallowStart" /\ pre.generatorStarting /\ pre.relayK1 = HIGH
  /\ allowStart = TRUE
  /\ generatorStopping

\* C10: from a rising edge of START that checkForSignals acts on, and as
\* long as no GET /start begins a start sequence and no setting changes, K1 is
\* asserted at most retryCount + 1 times.
BoundedRetries == edgeClean => attempts <= retryCount + 1

\* The last retry the limit allows has asserted K1.
RetriesExhausted ==
  /\ edgeClean /\ retryCount >= 1
  /\ attempts = retryCount + 1
  /\ retryStartCount = retryCount

\* C11: when a rising edge of START has started the generator from Idle and
\* nothing has happened since but the passing of time (no pin changed, no
\* request came, START is still high and the RUNNING feedback stayed low),
\* then once no
\* verification check is pending any more K1 has been asserted exactly
\* retryCount + 1 times: the initial start and retryCount retries.
ExactRetryCount ==
  (/\ edgeAlone /\ allowStart /\ runningState = LOW
   /\ pinStart = HIGH /\ lastStartState = HIGH
   /\ PendingCount(queue, "retryCheck") = 0
   /\ PendingCount(queue, "k1Release") = 0)
    => attempts = retryCount + 1

\* C12: the retry counter never exceeds the configured limit.
RetryCounterWithinLimit == retryStartCount <= retryCount

\* C13: a verification check that fires with the RUNNING feedback low, the
\* controller neither Stopping nor Starting, starts allowed and the retry
\* counter below the limit adds one to the counter, asserts K1 with a K1
\* release task powerUpDuration ahead and schedules another check, whether
\* the start it verifies came from a START edge or from GET /start.
CheckRetriesStart ==
  [][(/\ lastOp' = "retryCheck"
      /\ runningState = LOW /\ allowStart
      /\ ~generatorStopping /\ ~generatorStarting
      /\ retryStartCount < retryCount)
       => (/\ retryStartCount' = retryStartCount + 1
           /\ relayK1' = HIGH /\ generatorStarting'
           /\ Task("k1Release", powerUpDuration) \in DOMAIN queue'
           /\ Task("retryCheck", RETRY_CHECK_DELAY) \in DOMAIN queue')]_vars

\* C14: a call of checkForSignals that sees START rise while starts are
\* allowed and the controller is Idle asserts K1, enters Starting and
\* leaves a K1 release task powerUpDuration ahead and a verification check
\* RETRY_CHECK_DELAY ahead; when no task of an earlier sequence was pending
\* at that call, then as long as nothing but time intervenes K1 stays
\* asserted exactly while that release task is pending, the check stays
\* RETRY_CHECK_DELAY - powerUpDuration behind the release, and the release
\* lowers K1 and leaves Starting.
StartSequenceTiming ==
  /\ [][(/\ lastOp' = "checkForSignals" /\ initialized
         /\ lastStartState = LOW /\ lastStartState' = HIGH
         /\ allowStart /\ ~generatorStarting /\ ~generatorStopping)
          => (/\ relayK1' = HIGH /\ generatorStarting'
              /\ Task("k1Release", powerUpDuration) \in DOMAIN queue'
              /\ Task("retryCheck", RETRY_CHECK_DELAY) \in DOMAIN queue')]_vars
  /\ [][lastOp' = "k1Release" => (relayK1' = LOW /\ ~generatorStarting')]_vars
  /\ [](edgeAlone /\ attempts = 1 /\ retryStartCount = 0
          => /\ relayK1 = HIGH <=> PendingCount(queue, "k1Release") = 1
             /\ generatorStarting <=> relayK1 = HIGH
             /\ \A e \in Pending(queue, "k1Release") :
                  Task("retryCheck", e.rem + RETRY_CHECK_DELAY - powerUpDuration)
                    \in DOMAIN queue)

\* C14 witness: the release task of an undisturbed START-edge start has just
\* lowered K1, with the verification check still ahead.
StartEdgeK1Released ==
  /\ lastOp = "k1Release" /\ edgeAlone /\ attempts = 1
  /\ relayK1 = LOW /\ ~generatorStarting
  /\ PendingCount(queue, "retryCheck") = 1

\* C15: entering Stopping leaves a K2 release task powerDownDuration ahead;
\* that task lowers K2 and leaves the controller Idle; K2 is asserted only
\* while the controller is Stopping; and, provided the scheduler keeps
\* ticking (no update holds loop() back forever), a controller that is
\* Stopping is not Stopping any more some time later.
StopTerminates ==
  /\ [][(~generatorStopping /\ generatorStopping')
          => Task("k2Release", powerDownDuration) \in DOMAIN queue']_vars
  /\ [][lastOp' = "k2Release"
          => (relayK2' = LOW /\ ~generatorStopping' /\ ~generatorStarting')]_vars
  /\ [](relayK2 = HIGH => generatorStopping)
  /\ ([]<>(~otaIsRunning) => (generatorStopping ~> ~generatorStopping))

\* C15 witness: the K2 release task of a stop sequence has just fired.
StopSequenceEnded ==
  /\ lastOp = "k2Release" /\ pre.generatorStopping /\ pre.relayK2 = HIGH
  /\ relayK2 = LOW /\ ~generatorStopping

\* C16: a setter that returns true has left the value it was given under
\* its key in the store; a boot-time load that opens the store and directly
\* follows such a setter ends with the setting equal to that value; and
\* after any boot-time load that opens the store every setting with a
\* stored value equals the stored value.
ConfigRoundTrip ==
  /\ [][outcome'.ok =>
          /\ lastOp' = "setRetryCount" => nvs'["retryCount"] = Stored(outcome'.arg)
          /\ lastOp' = "setPowerUpDuration"
               => nvs'["powerUpDuration"] = Stored(outcome'.arg)
          /\ lastOp' = "setPowerDownDuration"
               => nvs'["powerDownDuration"] = Stored(outcome'.arg)
          /\ lastOp' = "allowStart" => nvs'["allowStart"] = Stored(TRUE)
          /\ lastOp' = "disallowStart" => nvs'["allowStart"] = Stored(FALSE)]_vars
  /\ [][(lastOp' = "setup" /\ outcome'.ok /\ outcome.ok) =>
          /\ lastOp = "setRetryCount" => retryCount' = outcome.arg
          /\ lastOp = "setPowerUpDuration" => powerUpDuration' = outcome.arg
          /\ lastOp = "setPowerDownDuration" => powerDownDuration' = outcome.arg
          /\ lastOp = "allowStart" => allowStart' = TRUE
          /\ lastOp = "disallowStart" => allowStart' = FALSE]_vars
  /\ []((lastOp = "setup" /\ outcome.ok) =>
          /\ nvs["retryCount"] # NoValue => nvs["retryCount"] = Stored(retryCount)
          /\ nvs["powerUpDuration"] # NoValue
               => nvs["powerUpDuration"] = Stored(powerUpDuration)
          /\ nvs["powerDownDuration"] # NoValue
               => nvs["powerDownDuration"] = Stored(powerDownDuration)
          /\ nvs["allowStart"] # NoValue => nvs["allowStart"] = Stored(allowStart))

\* C16 witness: a boot-time load has brought back a power-down duration
\* that a setter stored.
StoredDurationReloaded ==
  /\ lastOp = "setup" /\ outcome.ok
  /\ nvs["powerDownDuration"] = Stored(powerDownDuration)
  /\ powerDownDuration # DefaultPowerDownDuration

InvalidRetryCountRejected ==
  [][(lastOp' = "setRetryCount" /\ outcome'.arg \notin 0 .. RetryCountLimit)
       => (UNCHANGED <<cfgVars, nvs>> /\ ~outcome'.ok)]_vars

\* C18 witness: a count above 255 whose low byte is within range has just
\* been refused.
WrappingCountRefused ==
  /\ lastOp = "setRetryCount" /\ outcome.arg = 256 + MaxRetryInput
  /\ ~outcome.ok

\* C19: after the boot-time load every setting without a stored value has
\* its default (10000, 10000, 3, true) and every setting with a stored
\* value has that value.
BootDefaults ==
  lastOp = "setup" =>
    /\ IF nvs["powerUpDuration"] = NoValue
       THEN powerUpDuration = DefaultPowerUpDuration
       ELSE nvs["powerUpDuration"] = Stored(powerUpDuration)
    /\ IF nvs["powerDownDuration"] = NoValue
       THEN powerDownDuration = DefaultPowerDownDuration
       ELSE nvs["powerDownDuration"] = Stored(powerDownDuration)
    /\ IF nvs["retryCount"] = NoValue
       THEN retryCount = DefaultRetryCount
       ELSE nvs["retryCount"] = Stored(retryCount)
    /\ IF nvs["allowStart"] = NoValue
       THEN allowStart = TRUE
       ELSE nvs["allowStart"] = Stored(allowStart)

\* C20: a boot-time load that cannot open the store leaves every setting at
\* its default, so that starts stay allowed and a stop holds K2 for the
\* default power-down duration.
StorageFailureKeepsDefaults ==
  (lastOp = "setup" /\ ~outcome.ok) =>
    /\ allowStart = TRUE
    /\ retryCount = DefaultRetryCount
    /\ powerUpDuration = DefaultPowerUpDuration
    /\ powerDownDuration = DefaultPowerDownDuration

\* C21: a step taken while an update is running and that leaves it running
\* is no call of checkForSignals and no one-shot callback: it changes
\* nothing the debouncers keep, clears no changed flag, changes neither the
\* edge memory nor the running state nor the retry counter, and takes no
\* task off the queue.
OtaPausesControlTick ==
  [][(otaIsRunning /\ otaIsRunning') =>
       /\ lastOp' \notin {"checkForSignals", "k1Release", "k2Release",
                          "retryCheck"}
       /\ UNCHANGED <<initialized, lastStartReading, lastStopReading,
                      stableStartState, stableStopState, lastReading,
                      stableState, lastStartState, lastStopState,
                      runningState, retryStartCount, bootSignalPending>>
       /\ runningSignalChanged => runningSignalChanged'
       /\ \A kind \in {"k1Release", "k2Release", "retryCheck"} :
            PendingCount(queue', kind) >= PendingCount(queue, kind)]_vars

\* C21 witness: an update is running while the K1 release task is due and
\* K1 is still asserted.
TickHeldBack ==
  /\ otaIsRunning
  /\ \E e \in DOMAIN queue : e.rem = 0
  /\ relayK1 = HIGH

\* C22: between the begin and the end of an update neither relay changes
\* level, whatever request arrives.
NoRelayChangeDuringOta ==
  [][(otaIsRunning /\ otaIsRunning') => UNCHANGED <<relayK1, relayK2>>]_vars

\* C23: once checkForSignals has seeded its debouncers, the stable state
\* of START or STOP changes only in a call of checkForSignals whose sample
\* equals the sample before it and in which the time since the sampled
\* level last differed exceeds the debounce window, and it changes to that
\* level; the same holds for the stable state of RUNNING in every step that
\* is not a restart.
DebounceSafety ==
  /\ [][(initialized /\ initialized' /\ stableStartState' # stableStartState)
          => (/\ lastOp' = "checkForSignals"
              /\ lastStartReading = pinStart /\ lastStartReading' = pinStart
              /\ startAge' > DEBOUNCE_DELAY
              /\ stableStartState' = pinStart)]_vars
  /\ [][(initialized /\ initialized' /\ stableStopState' # stableStopState)
          => (/\ lastOp' = "checkForSignals"
              /\ lastStopReading = pinStop /\ lastStopReading' = pinStop
              /\ stopAge' > DEBOUNCE_DELAY
              /\ stableStopState' = pinStop)]_vars
  /\ [][(lastOp' # "setup" /\ stableState' # stableState)
          => (/\ lastReading = pinRunning /\ lastReading' = pinRunning
              /\ runAge' > DEBOUNCE_DELAY
              /\ stableState' = pinRunning)]_vars

\* C23 witness: a call of checkForSignals has just taken a new level of
\* START for stable.
StartBecameStable ==
  /\ lastOp = "checkForSignals" /\ pre.initialized
  /\ pre.stableStartState = LOW /\ stableStartState = HIGH
  /\ startAge > DEBOUNCE_DELAY

\* C26: in every call of checkForSignals after the seeding, a line whose
\* sampled level has not differed for DEBOUNCE_DELAY ms or more has that
\* level for its stable state when the call ends.
DebounceThreshold ==
  [][(lastOp' = "checkForSignals" /\ initialized) =>
       /\ startAge' >= DEBOUNCE_DELAY => stableStartState' = lastStartReading'
       /\ stopAge' >= DEBOUNCE_DELAY => stableStopState' = lastStopReading']_vars

\* C27: a setter that returns true leaves the setting the controller uses
\* equal to the value it was given.
SetterTakesEffect ==
  [][outcome'.ok =>
       /\ lastOp' = "setRetryCount" => retryCount' = outcome'.arg
       /\ lastOp' = "setPowerUpDuration" => powerUpDuration' = outcome'.arg
       /\ lastOp' = "setPowerDownDuration" => powerDownDuration' = outcome'.arg
       /\ lastOp' = "allowStart" => allowStart' = TRUE
       /\ lastOp' = "disallowStart" => allowStart' = FALSE]_vars

\* C29: as long as no pin has changed since boot, once checkForSignals and
\* checkRunningSignal have made their first evaluation the last reading and
\* the stable state of each of the three debouncers equal the level of
\* their pin, and the running state equals the stable state of RUNNING.
BootSeeding ==
  (events = 0 /\ initialized /\ ~bootSignalPending /\ ~runningSignalChanged)
    => /\ lastStartReading = pinStart /\ stableStartState = pinStart
       /\ lastStopReading = pinStop /\ stableStopState = pinStop
       /\ lastReading = pinRunning /\ stableState = pinRunning
       /\ runningState = stableState

\* C30: while a start sequence begun by a START edge runs undisturbed at
\* most one verification check is pending.
SingleCheckPending ==
  edgeAlone => PendingCount(queue, "retryCheck") <= 1

\* C24: provided the scheduler keeps ticking (no update holds loop() back
\* forever), when the RUNNING line stays at a level from some time on, the
\* running state the controller uses stays at that level from some time on.
FeedbackLiveness ==
  []<>(~otaIsRunning) =>
    /\ <>[](pinRunning = HIGH) => <>[](runningState = HIGH)
    /\ <>[](pinRunning = LOW) => <>[](runningState = LOW)

\* C25: the K1 release task of a start sequence that stop cancelled changes
\* no relay level and no controller flag when it fires: a K1 release that
\* fires some time after a newer start sequence began, while the release
\* task of that sequence is still ahead, leaves K1 and the flags as they
\* are.
SupersededReleaseIsNoOp ==
  [][(/\ lastOp' = "k1Release"
      /\ \E e \in Pending(queue', "k1Release") :
           e.rem > 0 /\ e.rem < powerUpDuration)
       => UNCHANGED <<relayK1, relayK2, generatorStarting,
                      generatorStopping>>]_vars

\* C28: a START edge that becomes stable while the controller is Stopping
\* starts nothing in that call, and from then on K1 is not asserted until
\* a START edge is acted on or GET /start arrives.
IgnoredEdgeNeverStarts ==
  [][(startIgnored' /\ lastOp' # "setup")
       => (relayK1' = HIGH => relayK1 = HIGH)]_vars

\* C31: K1 is not asserted for longer than powerUpDuration: once the one
\* release task of an asserted K1 is due, no time passes before K1 is low
\* (a step that only lets time pass leaves the task queue as it is).
BoundedK1OnTime ==
  [][(/\ relayK1 = HIGH
      /\ PendingCount(queue, "k1Release") = 1
      /\ Due(queue, "k1Release") # {}
      /\ lastOp' = "none")
       => queue' = queue]_vars

\* C33: a call of checkForSignals that finds the rising edge of STOP
\* already recorded (lastStopState high) and STOP still stable-high keeps
\* the record and issues no stop sequence: Stopping, K2 and the number of
\* pending K2 release tasks stay as they are, whether an earlier stop
\* sequence has completed or not.
OneStopPerStopEdge ==
  [][(/\ lastOp' = "checkForSignals" /\ initialized
      /\ lastStopState = HIGH /\ stableStopState' = HIGH)
       => (/\ lastStopState' = HIGH
           /\ generatorStopping' = generatorStopping
           /\ relayK2' = relayK2
           /\ PendingCount(queue', "k2Release")
                = PendingCount(queue, "k2Release"))]_vars

\* C33 witness: checkForSignals has just run with STOP stable-high and its
\* edge recorded, the controller not Stopping, and has issued no stop.
StopHeldHighNoStop ==
  /\ lastOp = "checkForSignals" /\ pre.initialized
  /\ pre.stableStopState = HIGH /\ stableStopState = HIGH
  /\ lastStopState = HIGH
  /\ ~pre.generatorStopping /\ ~generatorStopping /\ relayK2 = LOW

\* C32: with the handlers of /start and /stop interleaved statement by
\* statement with the callbacks of the event loop, K1 and K2 are never both
\* asserted and the controller is never Starting and Stopping at once.
InterleavedInterlock ==
  /\ ~(relayK1 = HIGH /\ relayK2 = HIGH)
  /\ ~(generatorStarting /\ generatorStopping)

====
